---- MODULE Spec2Model ----
(***************************************************************************)
(* The Node.js API gateway of dsa-automation-service                       *)
(* (src/dsa-backend/server.js): the folder cache with its TTL, the         *)
(* two-phase GitHub listing, the static fallback, the create-file          *)
(* forwarder and the health endpoint.                                      *)
(*                                                                         *)
(* JavaScript values are modelled as follows.                              *)
(*  - null / an absent JSON property is the empty sequence NULL, a present *)
(*    value v is the one-element sequence Some(v);                         *)
(*  - a folder tree (a JS object, keys in insertion order) is a sequence   *)
(*    of entries [name, subs];                                             *)
(*  - a JSON response body is a record of optional properties.             *)
(* A handler is atomic between two awaits on I/O: each action below is the *)
(* code that runs from one await to the next.                              *)
(***************************************************************************)
EXTENDS Integers, Sequences, FiniteSets, TLC

VARIABLES
    folderCache,     \* server.js:15  NULL or Some(tree)
    cacheTimestamp,  \* server.js:16  NULL or Some(ms)
    now,             \* the value Date.now() returns
    folderReqs,      \* GET /api/folders handlers, each idle or awaiting the upstream
    createReqs,      \* POST /api/create-file handlers, each idle or awaiting the service
    files,           \* the persistence service's files: records [base, version, content]
    lastRequest,     \* the body of the POST the gateway received in the last step, or NULL
    pyReceived,      \* the call the persistence service received in the last step, or NULL
    serving,         \* the process is alive and listening (server.js:164)
    lastResponse,    \* the response the gateway sent in the last step, or NoResponse
    lastFetchOk,     \* history: the time the last successful upstream fetch completed
    race,            \* history: how far the calls have gone through an unlocked
                     \* check-then-overwrite ("off" when it is not followed)
    ui,              \* part_000:7-16  the state of the client page (NULL without a page)
    calls,           \* the create-file requests of the page that await their answer
    ledger           \* history: what the page sent and which checks were answered
                     \* with exists:true

vars == <<folderCache, cacheTimestamp, now, folderReqs, createReqs, files,
          lastRequest, pyReceived, serving, lastResponse, lastFetchOk, race,
          ui, calls, ledger>>

cacheVars == <<folderCache, cacheTimestamp, lastFetchOk>>
createVars == <<createReqs, files, pyReceived>>
pageVars == <<ui, calls, ledger>>

----------------------------------------------------------------------------
(* Values *)

NULL == <<>>
Some(v) == <<v>>
Val(o) == o[1]

\* server.js:17
CACHE_TTL == 5 * 60 * 1000

\* Bounds of the model.
StartTime == 1000
MaxTicks == 1
FolderSlots == 2
CreateSlots == 2
MaxVersions == 2

\* The handlers that may be in flight at once, per endpoint.
FolderHandlers == DOMAIN folderReqs
CreateHandlers == DOMAIN createReqs

\* The clock advances by these amounts: just under a TTL, and a whole TTL.
TickSteps == {CACHE_TTL - 1, CACHE_TTL}

Dir(n) == [name |-> n, type |-> "dir"]
File(n) == [name |-> n, type |-> "file"]

\* What GET <repo>/contents may answer.
RootListings ==
    { <<>>,
      <<Dir("DS")>>,
      <<File("README.md"), Dir("Practice"), Dir("DS")>> }

\* What GET <repo>/contents/<folder> may answer.
SubListings ==
    { <<Dir("Stack"), File("a.cpp"), Dir("Arrays")>> }

----------------------------------------------------------------------------
(* Folder trees *)

EmptyTree == <<>>

Keys(tree) == [i \in 1..Len(tree) |-> tree[i].name]

HasKey(tree, k) == \E i \in 1..Len(tree) : tree[i].name = k

\* folderTree[k] = subs on a JS object: an existing key keeps its place.
Put(tree, k, subs) ==
    IF HasKey(tree, k)
    THEN [i \in 1..Len(tree) |->
            IF tree[i].name = k THEN [name |-> k, subs |-> subs] ELSE tree[i]]
    ELSE Append(tree, [name |-> k, subs |-> subs])

IsDir(item) == item.type = "dir"

\* items.filter(item => item.type === 'dir')
FilterDirs(items) == SelectSeq(items, IsDir)

\* .map(item => item.name)
Names(items) == [i \in 1..Len(items) |-> items[i].name]

\* server.js:52-54
SubFolders(listing) == Names(FilterDirs(listing))

\* server.js:72-80
getFallbackFolders ==
    << [name |-> "DS",
        subs |-> <<"Arrays", "LinkedList", "Stack", "Queue", "Tree", "Graph">>],
       [name |-> "Patterns",
        subs |-> <<"TwoPointers", "SlidingWindow", "BinarySearch", "DFS", "BFS">>],
       [name |-> "Algorithms",
        subs |-> <<"Sorting", "Searching", "DynamicProgramming">>],
       [name |-> "Practice",
        subs |-> <<"Easy", "Medium", "Hard">>] >>

----------------------------------------------------------------------------
(* Responses *)

\* A JSON object sent as a response body: every property absent.
NoBody ==
    [tree |-> NULL, error |-> NULL, exists |-> NULL, success |-> NULL,
     path |-> NULL, status |-> NULL, service |-> NULL, cacheStatus |-> NULL]

\* res.json(tree): the body is the tree object itself
TreeBody(t) == [NoBody EXCEPT !.tree = Some(t)]

\* res.json({ error: msg })
ErrorBody(msg) == [NoBody EXCEPT !.error = Some(msg)]

\* A response as the client observes it, with the place in the code that
\* sent it (via) and whether the clock advanced while the request was handled.
Response(endpoint, via, status, body, waited) ==
    [endpoint |-> endpoint, via |-> via, status |-> status, body |-> body,
     waited |-> waited]

NoResponse == Response("none", "none", 0, NoBody, FALSE)

\* A step in which no POST arrives and the persistence service receives no call.
NoCall == lastRequest' = NULL /\ pyReceived' = NULL

----------------------------------------------------------------------------
(* GET /api/folders *)

IdleFolderReq ==
    [pc |-> "idle", waited |-> FALSE, rootItems |-> <<>>, idx |-> 0,
     folderTree |-> EmptyTree]

\* JS truthiness of a nullable number
Truthy(o) == o # NULL /\ Val(o) # 0

CacheFreshInverted(t) ==
    /\ folderCache # NULL
    /\ Truthy(cacheTimestamp)
    /\ t - Val(cacheTimestamp) > CACHE_TTL

CacheFreshInclusive(t) ==
    /\ folderCache # NULL
    /\ Truthy(cacheTimestamp)
    /\ t - Val(cacheTimestamp) <= CACHE_TTL

\* server.js:87
CacheFresh(t) ==
    /\ folderCache # NULL
    /\ Truthy(cacheTimestamp)
    /\ t - Val(cacheTimestamp) < CACHE_TTL

RECURSIVE MergeTrees(_, _)
MergeTrees(old, new) ==
    IF new = <<>> THEN old
    ELSE MergeTrees(Put(old, Head(new).name, Head(new).subs), Tail(new))

MergeAndRespond(h, folders) ==
    /\ folderCache' =
         Some(IF folderCache = NULL THEN folders ELSE MergeTrees(Val(folderCache), folders))
    /\ cacheTimestamp' = Some(now)
    /\ lastFetchOk' = Some(now)
    /\ lastResponse' =
         Response("folders", "upstream", 200, TreeBody(folders), folderReqs[h].waited)
    /\ folderReqs' = [folderReqs EXCEPT ![h] = IdleFolderReq]

StoreTreeOnly(h, folders) ==
    /\ folderCache' = Some(folders)
    /\ lastFetchOk' = Some(now)
    /\ UNCHANGED cacheTimestamp
    /\ lastResponse' =
         Response("folders", "upstream", 200, TreeBody(folders), folderReqs[h].waited)
    /\ folderReqs' = [folderReqs EXCEPT ![h] = IdleFolderReq]

KeepFreshAndRespond(h, folders) ==
    /\ IF CacheFresh(now)
       THEN UNCHANGED cacheVars
       ELSE /\ folderCache' = Some(folders)
            /\ cacheTimestamp' = Some(now)
            /\ lastFetchOk' = Some(now)
    /\ lastResponse' =
         Response("folders", "upstream", 200, TreeBody(folders), folderReqs[h].waited)
    /\ folderReqs' = [folderReqs EXCEPT ![h] = IdleFolderReq]

\* server.js:95-97: fetchFoldersFromGitHub resolved with `folders`
StoreAndRespond(h, folders) ==
    /\ folderCache' = Some(folders)
    /\ cacheTimestamp' = Some(now)
    /\ lastFetchOk' = Some(now)
    /\ lastResponse' =
         Response("folders", "upstream", 200, TreeBody(folders), folderReqs[h].waited)
    /\ folderReqs' = [folderReqs EXCEPT ![h] = IdleFolderReq]

ServeStaleOnFailure(h) ==
    /\ lastResponse' =
         Response("folders", "fallback", 200,
                  TreeBody(IF folderCache # NULL THEN Val(folderCache)
                           ELSE getFallbackFolders),
                  folderReqs[h].waited)
    /\ folderReqs' = [folderReqs EXCEPT ![h] = IdleFolderReq]
    /\ UNCHANGED cacheVars

ClearCacheOnFailure(h) ==
    /\ lastResponse' =
         Response("folders", "fallback", 200, TreeBody(getFallbackFolders),
                  folderReqs[h].waited)
    /\ folderReqs' = [folderReqs EXCEPT ![h] = IdleFolderReq]
    /\ folderCache' = NULL
    /\ cacheTimestamp' = NULL
    /\ UNCHANGED lastFetchOk

CacheFallbackOnFailure(h) ==
    /\ lastResponse' =
         Response("folders", "fallback", 200, TreeBody(getFallbackFolders),
                  folderReqs[h].waited)
    /\ folderReqs' = [folderReqs EXCEPT ![h] = IdleFolderReq]
    /\ folderCache' = Some(getFallbackFolders)
    /\ cacheTimestamp' = Some(now)
    /\ UNCHANGED lastFetchOk

RetryFetchOnFailure(h) ==
    /\ folderReqs' = [folderReqs EXCEPT ![h] =
           [IdleFolderReq EXCEPT !.pc = "root", !.waited = folderReqs[h].waited]]
    /\ lastResponse' = NoResponse
    /\ UNCHANGED cacheVars

\* server.js:98-103: fetchFoldersFromGitHub rejected
FallbackAndRespond(h) ==
    /\ lastResponse' =
         Response("folders", "fallback", 200, TreeBody(getFallbackFolders),
                  folderReqs[h].waited)
    /\ folderReqs' = [folderReqs EXCEPT ![h] = IdleFolderReq]
    /\ UNCHANGED cacheVars

\* server.js:83-94: a request arrives; a fresh cache answers it, otherwise
\* fetchFoldersFromGitHub is called and the handler awaits the root listing.
FoldersStart(h) ==
    /\ serving
    /\ folderReqs[h].pc = "idle"
    /\ IF CacheFresh(now)
       THEN /\ lastResponse' =
                 Response("folders", "cache", 200, TreeBody(Val(folderCache)), FALSE)
            /\ UNCHANGED folderReqs
       ELSE /\ folderReqs' = [folderReqs EXCEPT ![h].pc = "root"]
            /\ lastResponse' = NoResponse
    /\ NoCall
    /\ UNCHANGED <<cacheVars, now, createReqs, files, serving, race, pageVars>>

\* server.js:32-40, 63-64: the root listing arrived
FetchRootOk(h) ==
    /\ serving
    /\ folderReqs[h].pc = "root"
    /\ \E listing \in RootListings :
         LET rootItems == FilterDirs(listing) IN
         IF rootItems = <<>>
         THEN StoreAndRespond(h, EmptyTree)
         ELSE /\ folderReqs' = [folderReqs EXCEPT ![h].pc = "sub",
                                                  ![h].rootItems = Names(rootItems),
                                                  ![h].idx = 1,
                                                  ![h].folderTree = EmptyTree]
              /\ lastResponse' = NoResponse
              /\ UNCHANGED cacheVars
    /\ NoCall
    /\ UNCHANGED <<now, createReqs, files, serving, race, pageVars>>

\* server.js:65-68, 98-103: the root listing failed (network error, non-2xx
\* status, or a payload that is not a list of entries)
FetchRootFail(h) ==
    /\ serving
    /\ folderReqs[h].pc = "root"
    /\ FallbackAndRespond(h)
    /\ NoCall
    /\ UNCHANGED <<now, createReqs, files, serving, race, pageVars>>

\* server.js:56/59, then 43 or 63-64 and 95-97: folderTree[folder.name] is
\* set to subs; the loop goes on to the next folder or the fetch resolves.
SubStep(h, subs) ==
    LET r == folderReqs[h]
        tree == Put(r.folderTree, r.rootItems[r.idx], subs)
    IN  IF r.idx = Len(r.rootItems)
        THEN StoreAndRespond(h, tree)
        ELSE /\ folderReqs' = [folderReqs EXCEPT ![h].idx = r.idx + 1,
                                                  ![h].folderTree = tree]
             /\ lastResponse' = NoResponse
             /\ UNCHANGED cacheVars

\* server.js:45-56: the listing of rootItems[idx] arrived
FetchSubOk(h) ==
    /\ serving
    /\ folderReqs[h].pc = "sub"
    /\ \E listing \in SubListings : SubStep(h, SubFolders(listing))
    /\ NoCall
    /\ UNCHANGED <<now, createReqs, files, serving, race, pageVars>>

AbortOnSubFailure(h) == FallbackAndRespond(h)

\* server.js:57-60: the catch of the inner try
SubFailed(h) == SubStep(h, <<>>)

\* server.js:45, 57-60: the listing of rootItems[idx] failed
FetchSubFail(h) ==
    /\ serving
    /\ folderReqs[h].pc = "sub"
    /\ SubFailed(h)
    /\ NoCall
    /\ UNCHANGED <<now, createReqs, files, serving, race, pageVars>>

----------------------------------------------------------------------------
(* GET /health *)

HealthFreshOnly ==
    /\ serving
    /\ lastResponse' =
         Response("health", "health", 200,
                  [NoBody EXCEPT !.status = Some("ok"),
                                 !.service = Some("node-gateway"),
                                 !.cacheStatus =
                                     Some(IF CacheFresh(now) THEN "loaded" ELSE "empty")],
                  FALSE)
    /\ NoCall
    /\ UNCHANGED <<cacheVars, now, folderReqs, createReqs, files, serving, race, pageVars>>

\* server.js:156-162
Health ==
    /\ serving
    /\ lastResponse' =
         Response("health", "health", 200,
                  [NoBody EXCEPT !.status = Some("ok"),
                                 !.service = Some("node-gateway"),
                                 !.cacheStatus =
                                     Some(IF folderCache # NULL THEN "loaded" ELSE "empty")],
                  FALSE)
    /\ NoCall
    /\ UNCHANGED <<cacheVars, now, folderReqs, createReqs, files, serving, race, pageVars>>

----------------------------------------------------------------------------
(* The clock *)

Tick ==
    /\ \E d \in TickSteps :
         /\ now + d <= StartTime + MaxTicks * CACHE_TTL
         /\ now' = now + d
    /\ folderReqs' = [h \in DOMAIN folderReqs |->
                        IF folderReqs[h].pc = "idle" THEN folderReqs[h]
                        ELSE [folderReqs[h] EXCEPT !.waited = TRUE]]
    /\ lastResponse' = NoResponse
    /\ NoCall
    /\ UNCHANGED <<cacheVars, createReqs, files, serving, race, pageVars>>

----------------------------------------------------------------------------
(* The persistence service (external; from its contract in the spec, 4.4) *)

\* A request body / forwarded payload with no property.
NoRequest ==
    [topFolder |-> NULL, subFolder |-> NULL, filename |-> NULL, content |-> NULL,
     action |-> NULL]

BasePath(p) ==
    Val(p.topFolder) \o "/" \o Val(p.subFolder) \o "/" \o Val(p.filename)

Exists(fs, base, v) == \E f \in fs : f.base = base /\ f.version = v

Write(fs, base, v, content) ==
    {f \in fs : ~(f.base = base /\ f.version = v)}
        \cup {[base |-> base, version |-> v, content |-> content]}

\* The first version of `base` that does not exist yet.
FreeVersion(fs, base) ==
    CHOOSE v \in 1..(Cardinality(fs) + 1) :
        /\ ~Exists(fs, base, v)
        /\ \A w \in 1..(v - 1) : Exists(fs, base, w)

Written(base, v) ==
    [NoBody EXCEPT !.success = Some(TRUE),
                   !.path = Some([base |-> base, version |-> v])]

\* What the service does with a call: its files afterwards and its answer.
PyService(fs, p) ==
    LET base == BasePath(p)
        action == Val(p.action)
        content == Val(p.content)
        free == FreeVersion(fs, base)
    IN  IF action = "check"
        THEN IF Exists(fs, base, 1)
             THEN [files |-> fs, data |-> [NoBody EXCEPT !.exists = Some(TRUE)]]
             ELSE [files |-> Write(fs, base, 1, content), data |-> Written(base, 1)]
        ELSE IF action = "overwrite"
        THEN [files |-> Write(fs, base, 1, content), data |-> Written(base, 1)]
        ELSE IF action = "version"
        THEN [files |-> Write(fs, base, free, content), data |-> Written(base, free)]
        ELSE [files |-> fs,
              data |-> [NoBody EXCEPT !.success = Some(FALSE),
                                      !.error = Some("rejected")]]

\* The statuses the service answers with.
PySuccessStatuses == {200, 201}
PyErrorStatuses == {409, 500}

\* The bodies the service sends with an error status.
PyErrorBodies ==
    { [NoBody EXCEPT !.success = Some(FALSE), !.error = Some("write failed")] }

\* The model stops at MaxVersions versions of a file.
WithinVersions(fs, p) ==
    Val(p.action) = "version" => FreeVersion(fs, BasePath(p)) <= MaxVersions

----------------------------------------------------------------------------
(* POST /api/create-file *)

IdleCreateReq == [pc |-> "idle", body |-> NoRequest, payload |-> NoRequest]

\* The well-formed bodies clients post.
ValidBodies ==
    [topFolder : {Some("DS")},
     subFolder : {Some("Arrays")},
     filename  : {Some("a.cpp")},
     content   : {Some("x"), Some("y")},
     action    : {Some("check"), Some("overwrite"), Some("version"), Some("reject")}]

\* The bodies the defective ones are made from.
DefectBases == {b \in ValidBodies : b.content = Some("x") /\ b.action = Some("overwrite")}

\* The bodies clients post: the well-formed ones, and bodies with one
\* property absent, empty or out of range, or with two such defects.
RequestBodies ==
    ValidBodies
    \cup {[b EXCEPT !.topFolder = NULL] : b \in DefectBases}
    \cup {[b EXCEPT !.subFolder = Some("")] : b \in DefectBases}
    \cup {[b EXCEPT !.filename = NULL] : b \in DefectBases}
    \cup {[b EXCEPT !.content = NULL] : b \in DefectBases}
    \cup {[b EXCEPT !.content = Some("")] : b \in DefectBases}
    \cup {[b EXCEPT !.action = NULL] : b \in DefectBases}
    \cup {[b EXCEPT !.action = Some("delete")] : b \in DefectBases}
    \cup {[b EXCEPT !.filename = Some(""), !.action = Some("delete")] : b \in DefectBases}

\* !value for an absent or string property
Falsy(o) == o = NULL \/ Val(o) = ""

MissingFieldsNoContent(body) ==
    \/ Falsy(body.topFolder)
    \/ Falsy(body.subFolder)
    \/ Falsy(body.filename)

\* server.js:116
MissingFields(body) ==
    \/ Falsy(body.topFolder)
    \/ Falsy(body.subFolder)
    \/ Falsy(body.filename)
    \/ Falsy(body.content)

\* server.js:120
ValidAction(action) ==
    /\ action # NULL
    /\ Val(action) \in {"check", "overwrite", "version", "reject"}

ForwardAlwaysCheck(body) ==
    [topFolder |-> body.topFolder, subFolder |-> body.subFolder,
     filename |-> body.filename, content |-> body.content, action |-> Some("check")]

ForwardLocked(body) ==
    [topFolder |-> body.topFolder, subFolder |-> body.subFolder,
     filename |-> body.filename, content |-> body.content,
     action |-> IF /\ body.action = Some("overwrite")
                   /\ \E g \in CreateHandlers :
                         /\ createReqs[g].pc = "posting"
                         /\ createReqs[g].payload.filename = body.filename
                THEN Some("check")
                ELSE body.action]

\* server.js:127-133: the object posted to the service
ForwardPayload(body) ==
    [topFolder |-> body.topFolder, subFolder |-> body.subFolder,
     filename |-> body.filename, content |-> body.content, action |-> body.action]

SuccessResponseAck(pythonResponse) ==
    Response("create", "service", 200, [NoBody EXCEPT !.success = Some(TRUE)], FALSE)

SuccessResponseMarked(pythonResponse) ==
    Response("create", "service", 200,
             [pythonResponse.data EXCEPT !.success = Some(TRUE)], FALSE)

\* server.js:137: res.json(pythonResponse.data), whatever the 2xx status was
SuccessResponse(pythonResponse) ==
    Response("create", "service", 200, pythonResponse.data, FALSE)

\* What axios.post rejects with: a code, and the response when there was one.
Error(code, response) == [code |-> code, response |-> response]

\* The error codes of a call that ended without a response.
NetworkCodes == {"ECONNREFUSED", "ENOTFOUND", "ECONNABORTED"}

CatchWithoutRefused(error) ==
    IF error.response # NULL
    THEN Response("create", "catch", Val(error.response).status,
                  Val(error.response).data, FALSE)
    ELSE Response("create", "catch", 500, ErrorBody("Internal server error"), FALSE)

CatchStatusOnly(error) ==
    IF error.code = "ECONNREFUSED"
    THEN Response("create", "catch", 503,
                  ErrorBody("Python service not available. Is it running on port 5000?"),
                  FALSE)
    ELSE IF error.response # NULL
    THEN Response("create", "catch", Val(error.response).status,
                  ErrorBody("Internal server error"), FALSE)
    ELSE Response("create", "catch", 500, ErrorBody("Internal server error"), FALSE)

CatchLeaksCode(error) ==
    IF error.code = "ECONNREFUSED"
    THEN Response("create", "catch", 503,
                  ErrorBody("Python service not available. Is it running on port 5000?"),
                  FALSE)
    ELSE IF error.response # NULL
    THEN Response("create", "catch", Val(error.response).status,
                  Val(error.response).data, FALSE)
    ELSE Response("create", "catch", 500, ErrorBody(error.code), FALSE)

\* server.js:138-152
CatchResponse(error) ==
    IF error.code = "ECONNREFUSED"
    THEN Response("create", "catch", 503,
                  ErrorBody("Python service not available. Is it running on port 5000?"),
                  FALSE)
    ELSE IF error.response # NULL
    THEN Response("create", "catch", Val(error.response).status,
                  Val(error.response).data, FALSE)
    ELSE Response("create", "catch", 500, ErrorBody("Internal server error"), FALSE)

\* server.js:112, 138: an error thrown in the handler that no catch handles
\* rejects the handler's promise, which ends the process. The try block spans
\* the whole handler and the catch never rethrows.
Uncaught(error) == FALSE

\* The history of an unlocked check-then-overwrite, followed from "none":
\*   "told"    a check with content "x" was answered {exists: true};
\*   "racing"  then an overwrite with content "y" of the same path was forwarded;
\*   "raced"   then an overwrite with content "y" of that path was performed;
\*   "resent"  then an overwrite with content "x" was forwarded;
\*   "lost"    then that overwrite was performed on the file holding "y".
\* The first caller posts "x", the second "y".
RaceAtStart(body) ==
    IF ~MissingFields(body) /\ body.action = Some("overwrite")
    THEN IF race = "told" /\ body.content = Some("y") THEN "racing"
         ELSE IF race = "raced" /\ body.content = Some("x") THEN "resent"
         ELSE race
    ELSE race

RaceAtAnswer(fs, p, data) ==
    IF race = "none" /\ p.action = Some("check") /\ p.content = Some("x")
                     /\ data.exists = Some(TRUE)
    THEN "told"
    ELSE IF race = "racing" /\ p.action = Some("overwrite") /\ p.content = Some("y")
                            /\ data.path = Some([base |-> BasePath(p), version |-> 1])
    THEN "raced"
    ELSE IF race = "resent" /\ p.action = Some("overwrite") /\ p.content = Some("x")
                            /\ \E f \in fs : /\ f.base = BasePath(p)
                                              /\ f.version = 1
                                              /\ f.content = "y"
    THEN "lost"
    ELSE race

\* server.js:111-135: a request arrives; it is validated and, when valid,
\* posted to the service, whose answer the handler awaits.
CreateStart(h, body) ==
    /\ serving
    /\ createReqs[h].pc = "idle"
    /\ IF MissingFields(body)
         THEN /\ lastResponse' =
                   Response("create", "validation", 400,
                            ErrorBody("Missing required fields"), FALSE)
              /\ UNCHANGED createReqs
         ELSE IF ~ValidAction(body.action)
         THEN /\ lastResponse' =
                   Response("create", "validation", 400,
                            ErrorBody("Invalid action"), FALSE)
              /\ UNCHANGED createReqs
         ELSE /\ createReqs' = [createReqs EXCEPT ![h] =
                    [pc |-> "posting", body |-> body, payload |-> ForwardPayload(body)]]
              /\ lastResponse' = NoResponse
    /\ lastRequest' = Some(body)
    /\ pyReceived' = NULL
    /\ race' = RaceAtStart(body)
    /\ UNCHANGED <<cacheVars, now, folderReqs, files, serving, pageVars>>

\* The handler ends after axios.post rejected with `error`.
CreateCatch(h, error) ==
    /\ lastResponse' = CatchResponse(error)
    /\ serving' = (serving /\ ~Uncaught(error))
    /\ createReqs' = [createReqs EXCEPT ![h] = IdleCreateReq]

\* server.js:127-137: the service performed the call and answered with a
\* success status
CreateServed(h) ==
    /\ serving
    /\ createReqs[h].pc = "posting"
    /\ WithinVersions(files, createReqs[h].payload)
    /\ \E status \in PySuccessStatuses :
         LET done == PyService(files, createReqs[h].payload) IN
         /\ files' = done.files
         /\ lastResponse' = SuccessResponse([status |-> status, data |-> done.data])
         /\ race' = RaceAtAnswer(files, createReqs[h].payload, done.data)
    /\ lastRequest' = NULL
    /\ pyReceived' = Some(createReqs[h].payload)
    /\ createReqs' = [createReqs EXCEPT ![h] = IdleCreateReq]
    /\ UNCHANGED <<cacheVars, now, folderReqs, serving, pageVars>>

\* server.js:127, 138-149: the service answered with an error status
CreateRejected(h) ==
    /\ serving
    /\ createReqs[h].pc = "posting"
    /\ \E status \in PyErrorStatuses, data \in PyErrorBodies :
         CreateCatch(h, Error("ERR_BAD_RESPONSE", Some([status |-> status, data |-> data])))
    /\ lastRequest' = NULL
    /\ pyReceived' = Some(createReqs[h].payload)
    /\ UNCHANGED <<cacheVars, now, folderReqs, files, race, pageVars>>

\* server.js:127, 138-152: the call ended without a response and without
\* reaching the service
CreateFailed(h, code) ==
    /\ serving
    /\ createReqs[h].pc = "posting"
    /\ CreateCatch(h, Error(code, NULL))
    /\ NoCall
    /\ UNCHANGED <<cacheVars, now, folderReqs, files, race, pageVars>>

\* server.js:133-135, 138-152: the service performed the call but its answer
\* did not arrive within the 30 s timeout
CreateTimedOut(h) ==
    /\ serving
    /\ createReqs[h].pc = "posting"
    /\ WithinVersions(files, createReqs[h].payload)
    /\ files' = PyService(files, createReqs[h].payload).files
    /\ CreateCatch(h, Error("ECONNABORTED", NULL))
    /\ lastRequest' = NULL
    /\ pyReceived' = Some(createReqs[h].payload)
    /\ UNCHANGED <<cacheVars, now, folderReqs, race, pageVars>>

----------------------------------------------------------------------------

InitWith(nFolders, nCreates) ==
    /\ folderCache = NULL
    /\ cacheTimestamp = NULL
    /\ now = StartTime
    /\ folderReqs = [h \in 1..nFolders |-> IdleFolderReq]
    /\ createReqs = [h \in 1..nCreates |-> IdleCreateReq]
    /\ files = {}
    /\ lastRequest = NULL
    /\ pyReceived = NULL
    /\ serving = TRUE
    /\ lastResponse = NoResponse
    /\ lastFetchOk = NULL
    /\ race = "off"
    /\ ui = NULL
    /\ calls = <<>>
    /\ ledger = NULL

NextFolders ==
    \/ \E h \in FolderHandlers : FoldersStart(h)
    \/ \E h \in FolderHandlers : FetchRootOk(h)
    \/ \E h \in FolderHandlers : FetchRootFail(h)
    \/ \E h \in FolderHandlers : FetchSubOk(h)
    \/ \E h \in FolderHandlers : FetchSubFail(h)
    \/ Health
    \/ Tick

NextCreate ==
    \/ \E h \in CreateHandlers, body \in RequestBodies : CreateStart(h, body)
    \/ \E h \in CreateHandlers : CreateServed(h)
    \/ \E h \in CreateHandlers : CreateRejected(h)
    \/ \E h \in CreateHandlers, code \in NetworkCodes : CreateFailed(h, code)
    \/ \E h \in CreateHandlers : CreateTimedOut(h)
    \/ Health

\* The read path alone, with FolderSlots concurrent handlers.
SpecFolders == InitWith(FolderSlots, 0) /\ [][NextFolders]_vars

\* The write path alone, with CreateSlots concurrent handlers (and one
\* handler of the read path, which stays idle).
SpecCreate == InitWith(1, CreateSlots) /\ [][NextCreate]_vars

\* The write path with the history of a check-then-overwrite followed.
InitRace ==
    /\ folderCache = NULL
    /\ cacheTimestamp = NULL
    /\ now = StartTime
    /\ folderReqs = [h \in 1..1 |-> IdleFolderReq]
    /\ createReqs = [h \in 1..CreateSlots |-> IdleCreateReq]
    /\ files = {}
    /\ lastRequest = NULL
    /\ pyReceived = NULL
    /\ serving = TRUE
    /\ lastResponse = NoResponse
    /\ lastFetchOk = NULL
    /\ race = "none"
    /\ ui = NULL
    /\ calls = <<>>
    /\ ledger = NULL

\* Well-formed requests to a service that is up and answers.
NextRace ==
    \/ \E h \in CreateHandlers, body \in ValidBodies : CreateStart(h, body)
    \/ \E h \in CreateHandlers : CreateServed(h)

SpecRace == InitRace /\ [][NextRace]_vars

\* Both paths, one handler of each endpoint in flight at a time.
Init == InitWith(1, 1)

Next == NextFolders \/ NextCreate

Spec == Init /\ [][Next]_vars

----------------------------------------------------------------------------
(* Calls that never settle *)

\* server.js:32-37, 45-50: axios.get is called without a timeout option, so
\* a listing the upstream never answers leaves its promise pending for good:
\* the handler stays at its await.
ListingHangs(h) ==
    /\ serving
    /\ folderReqs[h].pc \in {"root", "sub"}
    /\ folderReqs' = [folderReqs EXCEPT ![h] = [IdleFolderReq EXCEPT !.pc = "hung"]]
    /\ lastResponse' = NoResponse
    /\ NoCall
    /\ UNCHANGED <<cacheVars, now, createReqs, files, serving, race, pageVars>>

\* The listing call of handler h settles: it is answered or it fails.
ListingSettles(h) ==
    FetchRootOk(h) \/ FetchRootFail(h) \/ FetchSubOk(h) \/ FetchSubFail(h)

\* server.js:127-135: axios.post settles, with the service's answer, an
\* error, or at the latest when its 30 s timeout elapses.
PostSettles(h) ==
    \/ CreateServed(h)
    \/ CreateRejected(h)
    \/ \E code \in NetworkCodes : CreateFailed(h, code)
    \/ CreateTimedOut(h)

NextLive ==
    \/ Next
    \/ \E h \in FolderHandlers : ListingHangs(h)

\* Both paths with one handler each, where the upstream may never answer a
\* listing. The event loop runs the continuation of every call that settles.
SpecLive ==
    /\ Init
    /\ [][NextLive]_vars
    /\ WF_vars(ListingSettles(1))
    /\ WF_vars(PostSettles(1))

----------------------------------------------------------------------------
(* The client page (src/unnamed/part_000) *)

\* Bounds of the page.
MaxCalls == 2
MaxSends == 4

\* What the operator types into the filename and the code input.
Titles == {"", " ", "a.cpp"}
Codes == {"", "x", "y"}

\* A tree GET /api/folders answers with.
PageTree ==
    << [name |-> "DS", subs |-> <<"Arrays", "Stack">>],
       [name |-> "Practice", subs |-> <<>>] >>

FolderAnswers == {EmptyTree, PageTree}

\* part_000:7-16, with fetchFolders() of the mount effect (18-20) begun
InitialPage ==
    [title |-> "", code |-> "", topFolder |-> "", subFolder |-> "",
     folders |-> EmptyTree, loading |-> FALSE, fetchingFolders |-> TRUE,
     showModal |-> FALSE, modalData |-> NULL, status |-> ""]

FreeCall == [origin |-> "free", payload |-> NoRequest]

NoLedger == [sent |-> NULL, answered |-> <<>>, resolved |-> <<>>, sends |-> 0]

\* folders[k] || []
FolderList(tree, k) ==
    IF \E i \in 1..Len(tree) : tree[i].name = k
    THEN (CHOOSE e \in {tree[i] : i \in 1..Len(tree)} : e.name = k).subs
    ELSE <<>>

\* !s.trim()
Blank(s) == s \in {"", " "}

\* A JSON property that is present and true.
IsTrue(o) == o # NULL /\ Val(o) = TRUE

Count(f, c) == IF c \in DOMAIN f THEN f[c] ELSE 0

Inc(f, c) == [x \in (DOMAIN f) \cup {c} |-> Count(f, x) + (IF x = c THEN 1 ELSE 0)]

\* The check request a request of the page resolves.
CheckOf(payload) == [payload EXCEPT !.action = Some("check")]

serverVars ==
    <<cacheVars, now, folderReqs, createReqs, lastRequest, pyReceived, serving,
      lastResponse, race>>

\* fetch(`${API_BASE}/create-file`, ...) begins: the request leaves the page.
Send(origin, payload) ==
    /\ ledger.sends < MaxSends
    /\ \E s \in DOMAIN calls :
         /\ calls[s] = FreeCall
         /\ \A r \in DOMAIN calls : r < s => calls[r] # FreeCall
         /\ calls' = [calls EXCEPT ![s] = [origin |-> origin, payload |-> payload]]
    /\ ledger' = [ledger EXCEPT
                    !.sent = Some([origin |-> origin, payload |-> payload]),
                    !.sends = @ + 1,
                    !.resolved = IF origin = "modal" THEN Inc(@, CheckOf(payload)) ELSE @]

\* A step of the page that sends nothing.
NothingSent == ledger' = [ledger EXCEPT !.sent = NULL]

\* The gateway's answers to a create-file request (server.js:111-153), with
\* the files of the persistence service afterwards.
GatewayAnswers(fs, payload) ==
    IF MissingFields(payload)
    THEN {[files |-> fs, data |-> ErrorBody("Missing required fields")]}
    ELSE IF ~ValidAction(payload.action)
    THEN {[files |-> fs, data |-> ErrorBody("Invalid action")]}
    ELSE {[files |-> fs, data |-> CatchResponse(Error("ECONNREFUSED", NULL)).body]}
         \cup (IF WithinVersions(fs, ForwardPayload(payload))
               THEN LET done == PyService(fs, ForwardPayload(payload)) IN
                    {[files |-> done.files,
                      data |-> SuccessResponse([status |-> 200, data |-> done.data]).body]}
               ELSE {})

\* part_000:25-44: GET /api/folders is answered with a tree
fetchFolders(data) ==
    /\ ui # NULL
    /\ ui.fetchingFolders
    /\ LET firstTop == IF Len(data) > 0 THEN data[1].name ELSE "" IN
       ui' = [ui EXCEPT
                !.folders = data,
                !.topFolder = IF firstTop # "" THEN firstTop ELSE @,
                !.subFolder = IF firstTop # "" /\ Len(data[1].subs) > 0
                              THEN data[1].subs[1] ELSE @,
                !.fetchingFolders = FALSE]
    /\ NothingSent
    /\ UNCHANGED <<serverVars, files, calls>>

\* part_000:25, 40-44: GET /api/folders fails
fetchFoldersFailed ==
    /\ ui # NULL
    /\ ui.fetchingFolders
    /\ ui' = [ui EXCEPT !.status = "error", !.fetchingFolders = FALSE]
    /\ NothingSent
    /\ UNCHANGED <<serverVars, files, calls>>

\* part_000:183
setTitle(value) ==
    /\ ui # NULL
    /\ value # ui.title
    /\ ui' = [ui EXCEPT !.title = value]
    /\ NothingSent
    /\ UNCHANGED <<serverVars, files, calls>>

\* part_000:200
setCode(value) ==
    /\ ui # NULL
    /\ value # ui.code
    /\ ui' = [ui EXCEPT !.code = value]
    /\ NothingSent
    /\ UNCHANGED <<serverVars, files, calls>>

\* part_000:47-54, the select of 225-239 (rendered once the folders arrived)
handleTopFolderChange(value) ==
    /\ ui # NULL
    /\ ~ui.fetchingFolders
    /\ value # ui.topFolder
    /\ \E i \in 1..Len(ui.folders) : ui.folders[i].name = value
    /\ ui' = [ui EXCEPT
                !.topFolder = value,
                !.subFolder = IF Len(FolderList(ui.folders, value)) > 0
                              THEN FolderList(ui.folders, value)[1] ELSE ""]
    /\ NothingSent
    /\ UNCHANGED <<serverVars, files, calls>>

\* part_000:250-265
setSubFolder(value) ==
    /\ ui # NULL
    /\ ~ui.fetchingFolders
    /\ ui.topFolder # ""
    /\ value # ui.subFolder
    /\ \E i \in 1..Len(FolderList(ui.folders, ui.topFolder)) :
         FolderList(ui.folders, ui.topFolder)[i] = value
    /\ ui' = [ui EXCEPT !.subFolder = value]
    /\ NothingSent
    /\ UNCHANGED <<serverVars, files, calls>>

\* part_000:284-286: the submit button is rendered and enabled. The modal
\* lies over it but does not disable it.
SubmitEnabled ==
    /\ ~ui.fetchingFolders
    /\ ~ui.loading
    /\ ui.title # ""
    /\ ui.code # ""
    /\ ui.topFolder # ""
    /\ ui.subFolder # ""

\* part_000:66-72
CheckPayload ==
    [topFolder |-> Some(ui.topFolder), subFolder |-> Some(ui.subFolder),
     filename |-> Some(ui.title), content |-> Some(ui.code), action |-> Some("check")]

\* part_000:56-78: up to the await of fetch
handleSubmit ==
    /\ ui # NULL
    /\ SubmitEnabled
    /\ IF Blank(ui.title) \/ Blank(ui.code) \/ ui.topFolder = "" \/ ui.subFolder = ""
       THEN /\ ui' = [ui EXCEPT !.status = "error"]
            /\ NothingSent
            /\ UNCHANGED calls
       ELSE /\ ui' = [ui EXCEPT !.loading = TRUE, !.status = ""]
            /\ Send("submit", CheckPayload)
    /\ UNCHANGED <<serverVars, files>>

\* part_000:80-96: the check request is answered
SubmitAnswered(s) ==
    /\ ui # NULL
    /\ calls[s].origin = "submit"
    /\ \E a \in GatewayAnswers(files, calls[s].payload) :
         /\ files' = a.files
         /\ ui' = IF IsTrue(a.data.exists)
                  THEN [ui EXCEPT !.modalData = Some(calls[s].payload),
                                  !.showModal = TRUE, !.loading = FALSE]
                  ELSE IF IsTrue(a.data.success)
                  THEN [ui EXCEPT !.status = "success", !.title = "", !.code = "",
                                  !.loading = FALSE]
                  ELSE [ui EXCEPT !.status = "error", !.loading = FALSE]
         /\ ledger' = [ledger EXCEPT
                         !.sent = NULL,
                         !.answered = IF a.data.exists = Some(TRUE)
                                         /\ calls[s].payload.action = Some("check")
                                      THEN Inc(@, calls[s].payload) ELSE @]
    /\ calls' = [calls EXCEPT ![s] = FreeCall]
    /\ UNCHANGED serverVars

HandleModalActionKeepsModal(action) ==
    /\ ui # NULL
    /\ ui.showModal
    /\ ui' = [ui EXCEPT !.loading = TRUE]
    /\ Send("modal", [Val(ui.modalData) EXCEPT !.action = Some(action)])
    /\ UNCHANGED <<serverVars, files>>

\* part_000:99-109, from the buttons of the modal (306, 320-341): up to the
\* await of fetch. Cancel hides the modal and calls handleModalAction('reject').
handleModalAction(action) ==
    /\ ui # NULL
    /\ ui.showModal
    /\ ui' = [ui EXCEPT !.showModal = FALSE, !.loading = TRUE]
    /\ Send("modal", [Val(ui.modalData) EXCEPT !.action = Some(action)])
    /\ UNCHANGED <<serverVars, files>>

\* part_000:111-124: the request of the modal is answered
ModalAnswered(s) ==
    /\ ui # NULL
    /\ calls[s].origin = "modal"
    /\ \E a \in GatewayAnswers(files, calls[s].payload) :
         /\ files' = a.files
         /\ ui' = IF IsTrue(a.data.success)
                  THEN [ui EXCEPT !.status = "success", !.title = "", !.code = "",
                                  !.loading = FALSE]
                  ELSE [ui EXCEPT !.status = "error", !.loading = FALSE]
    /\ NothingSent
    /\ calls' = [calls EXCEPT ![s] = FreeCall]
    /\ UNCHANGED serverVars

\* part_000:92-96, 120-124: fetch rejects, or the answer is not JSON
CallFailed(s) ==
    /\ ui # NULL
    /\ calls[s].origin \in {"submit", "modal"}
    /\ ui' = [ui EXCEPT !.status = "error", !.loading = FALSE]
    /\ NothingSent
    /\ calls' = [calls EXCEPT ![s] = FreeCall]
    /\ UNCHANGED <<serverVars, files>>

InitPage ==
    /\ folderCache = NULL
    /\ cacheTimestamp = NULL
    /\ now = StartTime
    /\ folderReqs = [h \in 1..1 |-> IdleFolderReq]
    /\ createReqs = [h \in 1..1 |-> IdleCreateReq]
    /\ files = {}
    /\ lastRequest = NULL
    /\ pyReceived = NULL
    /\ serving = TRUE
    /\ lastResponse = NoResponse
    /\ lastFetchOk = NULL
    /\ race = "off"
    /\ ui = InitialPage
    /\ calls = [s \in 1..MaxCalls |-> FreeCall]
    /\ ledger = NoLedger

NextPage ==
    \/ \E data \in FolderAnswers : fetchFolders(data)
    \/ fetchFoldersFailed
    \/ \E value \in Titles : setTitle(value)
    \/ \E value \in Codes : setCode(value)
    \/ \E value \in {"DS", "Practice"} : handleTopFolderChange(value)
    \/ \E value \in {"Arrays", "Stack"} : setSubFolder(value)
    \/ handleSubmit
    \/ \E s \in DOMAIN calls : SubmitAnswered(s)
    \/ \E action \in {"overwrite", "version", "reject"} : handleModalAction(action)
    \/ \E s \in DOMAIN calls : ModalAnswered(s)
    \/ \E s \in DOMAIN calls : CallFailed(s)

\* One page in front of the gateway and the persistence service.
SpecPage == InitPage /\ [][NextPage]_vars

----------------------------------------------------------------------------
(* Properties of the read path *)

\* C1. Cache freshness: within CACHE_TTL (300 s) of the completion of a
\* successful upstream fetch, no GET /api/folders handler invokes
\* fetchFoldersFromGitHub: the successful fetch is the only invocation.
C1_CacheFreshness ==
    [][\A h \in FolderHandlers :
          (folderReqs[h].pc = "idle" /\ folderReqs'[h].pc = "root")
              => ~(/\ lastFetchOk # NULL
                   /\ Val(lastFetchOk) <= now
                   /\ now - Val(lastFetchOk) < 300000)]_vars

\* A request answered from the cache 299999 ms after the successful fetch.
C1_Witness ==
    /\ lastResponse.via = "cache"
    /\ lastFetchOk # NULL
    /\ now - Val(lastFetchOk) = 299999

\* C2. A GET /api/folders request is answered from the cache, with no
\* upstream call, iff a cache entry exists and now - cacheTimestamp < 300000
\* at the start of the request; the response is then exactly the cached
\* tree; at an age of 300000 ms or more the request goes to the upstream.
C2_FreshIffCached ==
    [][\A h \in FolderHandlers :
          FoldersStart(h) =>
              LET fresh == /\ folderCache # NULL
                           /\ cacheTimestamp # NULL
                           /\ now - Val(cacheTimestamp) < 300000
              IN  /\ fresh =>
                        /\ lastResponse'.endpoint = "folders"
                        /\ lastResponse'.via = "cache"
                        /\ lastResponse'.status = 200
                        /\ lastResponse'.body = TreeBody(Val(folderCache))
                        /\ folderReqs' = folderReqs
                  /\ ~fresh =>
                        /\ folderReqs'[h].pc = "root"
                        /\ lastResponse' = NoResponse]_vars

\* A request that arrived when the entry was exactly 300000 ms old and went
\* to the upstream.
C2_Witness ==
    \E h \in FolderHandlers :
        /\ folderReqs[h].pc = "root"
        /\ ~folderReqs[h].waited
        /\ folderCache # NULL
        /\ cacheTimestamp # NULL
        /\ now - Val(cacheTimestamp) = 300000

\* C3. Whenever the upstream fetch fails, with the cache absent or stale,
\* the response is 200 with the static fallback tree (non-empty, with its
\* four fixed top-level keys), never the cached tree and never an error.
C3_FallbackOnFailure ==
    [][\A h \in FolderHandlers :
          FetchRootFail(h) =>
              /\ lastResponse'.endpoint = "folders"
              /\ lastResponse'.status = 200
              /\ lastResponse'.body.error = NULL
              /\ lastResponse'.body.tree # NULL
              /\ Keys(Val(lastResponse'.body.tree))
                    = <<"DS", "Patterns", "Algorithms", "Practice">>
              /\ \A i \in 1..4 : Val(lastResponse'.body.tree)[i].subs # <<>>
              /\ lastResponse'.body.tree # folderCache]_vars

\* The fallback served while a stale entry is in the cache.
C3_Witness ==
    /\ lastResponse.via = "fallback"
    /\ folderCache # NULL
    /\ now - Val(cacheTimestamp) >= 300000

\* C4. folderCache and cacheTimestamp are changed only by a successful
\* upstream fetch inside a GET /api/folders handler: a failed fetch, a cache
\* hit, GET /health and every outcome of POST /api/create-file leave both
\* unchanged.
C4_OnlySuccessfulFetchWrites ==
    [][(folderCache' # folderCache \/ cacheTimestamp' # cacheTimestamp) =>
          \E h \in FolderHandlers :
              /\ folderReqs[h].pc \in {"root", "sub"}
              /\ folderReqs'[h].pc = "idle"
              /\ lastResponse'.endpoint = "folders"
              /\ lastResponse'.via = "upstream"
              /\ folderCache' = lastResponse'.body.tree]_vars

\* A loaded cache that a failed create-file request has just left as it was.
C4_Witness ==
    /\ folderCache # NULL
    /\ cacheTimestamp # NULL
    /\ lastResponse.endpoint = "create"
    /\ lastResponse.status = 500

\* C5. When the upstream fetch succeeds, the cache entry is replaced
\* wholesale by the newly fetched tree paired with the time at which the
\* fetch completed (also when the clock advanced since the request
\* arrived); no key of the previous tree survives unless it is in the new
\* tree; the response is that same tree.
C5_ReplaceOnSuccess ==
    [][\A h \in FolderHandlers :
          (/\ folderReqs[h].pc \in {"root", "sub"}
           /\ folderReqs'[h].pc = "idle"
           /\ lastResponse'.via = "upstream")
          =>
          LET r == folderReqs[h]
              fetched == Val(lastResponse'.body.tree)
          IN  /\ lastResponse'.status = 200
              /\ lastResponse'.body.tree # NULL
              /\ Keys(fetched) = (IF r.pc = "root" THEN <<>> ELSE r.rootItems)
              /\ r.pc = "sub" => SubSeq(fetched, 1, Len(fetched) - 1) = r.folderTree
              /\ folderCache' = Some(fetched)
              /\ cacheTimestamp' = Some(now)
              /\ folderCache # NULL =>
                    \A i \in 1..Len(Val(folderCache)) :
                        LET k == Val(folderCache)[i].name
                        IN  ~HasKey(fetched, k) => ~HasKey(Val(folderCache'), k)]_vars

\* A fetch that completed after the clock had advanced since the request
\* arrived: the entry carries the completion time and the tree just sent.
C5_Witness ==
    /\ lastResponse.via = "upstream"
    /\ lastResponse.waited
    /\ now > StartTime
    /\ cacheTimestamp = Some(now)
    /\ folderCache = lastResponse.body.tree

RECURSIVE DirChildren(_)
\* The names of the directory-kind entries of a listing, in its order.
DirChildren(listing) ==
    IF listing = <<>> THEN <<>>
    ELSE IF Head(listing).type = "dir"
         THEN <<Head(listing).name>> \o DirChildren(Tail(listing))
         ELSE DirChildren(Tail(listing))

\* C6. Isolation of partial failure: once the root listing succeeded, a
\* failed listing of one top-level directory maps that directory to the
\* empty list and the fetch goes on; the tree returned has every top-level
\* directory as a key, the others mapped to their directory-kind children;
\* only a failure of the root listing makes the fetch fail (fallback).
C6_PartialFailureIsolated ==
    [][/\ \A h \in FolderHandlers :
            (folderReqs[h].pc = "root" /\ folderReqs'[h].pc = "sub") =>
                \E listing \in RootListings :
                    folderReqs'[h].rootItems = DirChildren(listing)
       /\ \A h \in FolderHandlers :
            (FetchSubOk(h) \/ FetchSubFail(h)) =>
                LET r == folderReqs[h]
                    last == r.idx = Len(r.rootItems)
                    tree == IF last
                            THEN IF lastResponse'.body.tree = NULL THEN <<>>
                                 ELSE Val(lastResponse'.body.tree)
                            ELSE folderReqs'[h].folderTree
                IN  /\ last => /\ lastResponse'.via = "upstream"
                               /\ lastResponse'.status = 200
                               /\ folderReqs'[h].pc = "idle"
                    /\ ~last => /\ lastResponse' = NoResponse
                                /\ folderReqs'[h].pc = "sub"
                                /\ folderReqs'[h].idx = r.idx + 1
                                /\ folderReqs'[h].rootItems = r.rootItems
                    /\ Keys(tree) = SubSeq(r.rootItems, 1, r.idx)
                    /\ \A i \in 1..(r.idx - 1) : tree[i] = r.folderTree[i]
                    /\ FetchSubFail(h) => tree[r.idx].subs = <<>>
                    /\ FetchSubOk(h) =>
                          \E listing \in SubListings :
                              tree[r.idx].subs = DirChildren(listing)
       /\ lastResponse'.via = "fallback" =>
            \E h \in FolderHandlers :
                folderReqs[h].pc = "root" /\ folderReqs'[h].pc = "idle"]_vars

\* A tree returned after the listing of "Practice" failed and the listing
\* of "DS" succeeded.
C6_Witness ==
    /\ lastResponse.via = "upstream"
    /\ lastResponse.body.tree =
          Some(<< [name |-> "Practice", subs |-> <<>>],
                  [name |-> "DS", subs |-> <<"Stack", "Arrays">>] >>)

----------------------------------------------------------------------------
(* Properties of the write path *)

\* A property of a posted body is missing or empty.
Absent(o) == o = NULL \/ o = Some("")

\* A body that must be rejected: a required field missing or empty, or an
\* action that is not one of check, overwrite, version, reject.
Malformed(body) ==
    \/ Absent(body.topFolder)
    \/ Absent(body.subFolder)
    \/ Absent(body.filename)
    \/ Absent(body.content)
    \/ body.action \notin {Some("check"), Some("overwrite"), Some("version"), Some("reject")}

\* C7. Validation precedes forwarding: a POST /api/create-file request with
\* topFolder, subFolder, filename or content missing or empty, or with an
\* action outside check/overwrite/version/reject, is answered 400 and no
\* call is made to the persistence service.
C7_ValidationFirst ==
    [][(lastRequest' # NULL /\ Malformed(Val(lastRequest'))) =>
              /\ lastResponse'.endpoint = "create"
              /\ lastResponse'.status = 400
              /\ lastResponse'.body.error # NULL
              /\ createReqs' = createReqs
              /\ pyReceived' = NULL
              /\ files' = files]_vars

\* A 400 sent while no call to the service is pending or was made.
C7_Witness ==
    /\ lastRequest # NULL
    /\ Val(lastRequest).action = Some("delete")
    /\ lastResponse.status = 400
    /\ lastResponse.body.error = Some("Invalid action")
    /\ pyReceived = NULL
    /\ \A h \in CreateHandlers : createReqs[h].pc = "idle"

\* C8. Action pass-through: every call the persistence service receives
\* carries exactly the topFolder, subFolder, filename, content and action of
\* one valid client request (reject included: it is forwarded); so the
\* service receives an overwrite only for a client request with
\* action=overwrite, whatever a check was answered before.
C8_ActionPassThrough ==
    /\ [](\A h \in CreateHandlers :
             createReqs[h].pc = "posting" =>
                 /\ ~Malformed(createReqs[h].body)
                 /\ createReqs[h].body \in RequestBodies
                 /\ \A f \in {"topFolder", "subFolder", "filename", "content", "action"} :
                        createReqs[h].payload[f] = createReqs[h].body[f])
    /\ [][/\ (lastRequest' # NULL /\ ~Malformed(Val(lastRequest'))) =>
               \E h \in CreateHandlers :
                   /\ createReqs[h].pc = "idle"
                   /\ createReqs'[h].pc = "posting"
                   /\ createReqs'[h].body = Val(lastRequest')
          /\ pyReceived' # NULL =>
               \E h \in CreateHandlers :
                   /\ createReqs[h].pc = "posting"
                   /\ createReqs'[h].pc = "idle"
                   /\ Val(pyReceived') = createReqs[h].payload
                   /\ Val(pyReceived').action = createReqs[h].body.action]_vars

\* The service has just received a forwarded reject.
C8_Witness ==
    /\ pyReceived # NULL
    /\ Val(pyReceived).action = Some("reject")
    /\ Val(pyReceived).filename = Some("a.cpp")

\* C9. When the service answers a forwarded request with a success status,
\* the gateway responds 200 with the service's body unchanged: a check on an
\* absent file yields the service's {success: true, path}, a check on an
\* existing file {exists: true}, and the path of a version is the one the
\* service chose.
C9_SuccessBodyUnchanged ==
    [][\A h \in CreateHandlers :
          (createReqs[h].pc = "posting" /\ pyReceived' # NULL /\ CreateServed(h)) =>
              LET p == createReqs[h].payload
                  answer == PyService(files, p)
                  existed == Exists(files, BasePath(p), 1)
              IN  /\ lastResponse'.endpoint = "create"
                  /\ lastResponse'.status = 200
                  /\ lastResponse'.body = answer.data
                  /\ (p.action = Some("check") /\ ~existed) =>
                        /\ lastResponse'.body.success = Some(TRUE)
                        /\ lastResponse'.body.path # NULL
                        /\ lastResponse'.body.exists = NULL
                  /\ (p.action = Some("check") /\ existed) =>
                        /\ lastResponse'.body.exists = Some(TRUE)
                        /\ lastResponse'.body.success = NULL
                        /\ lastResponse'.body.path = NULL
                  /\ p.action = Some("version") =>
                        lastResponse'.body.path = answer.data.path]_vars

\* The response to a version request: the path of the second version, as
\* the service named it.
C9_Witness ==
    /\ lastResponse.via = "service"
    /\ lastResponse.status = 200
    /\ pyReceived # NULL
    /\ Val(pyReceived).action = Some("version")
    /\ lastResponse.body.path = Some([base |-> "DS/Arrays/a.cpp", version |-> 2])

\* C10. When the connection to the persistence service is refused, a valid
\* request with any of the four actions is answered 503 with the 'Python
\* service not available' body, and the gateway keeps serving: the process
\* stays up, and a request of any endpoint is accepted afterwards.
C10_RefusedIs503 ==
    /\ [](serving)
    /\ [](lastResponse.status = 503 =>
             /\ ENABLED Health
             /\ \A h \in FolderHandlers :
                    folderReqs[h].pc = "idle" => ENABLED FoldersStart(h)
             /\ \A h \in CreateHandlers :
                    createReqs[h].pc = "idle" =>
                        \A body \in RequestBodies : ENABLED CreateStart(h, body))
    /\ [][\A h \in CreateHandlers :
             CreateFailed(h, "ECONNREFUSED") =>
                 /\ createReqs[h].payload.action
                       \in {Some("check"), Some("overwrite"), Some("version"), Some("reject")}
                 /\ lastResponse'.endpoint = "create"
                 /\ lastResponse'.status = 503
                 /\ lastResponse'.body =
                       ErrorBody("Python service not available. Is it running on port 5000?")
                 /\ createReqs'[h].pc = "idle"
                 /\ serving']_vars

\* A 503 has just been sent while another request is in flight, and the
\* process is serving.
C10_Witness ==
    /\ lastResponse.endpoint = "create"
    /\ lastResponse.status = 503
    /\ serving
    /\ \E h \in CreateHandlers : createReqs[h].pc = "posting"

\* C11. Whenever the forwarded call ends without any HTTP response
\* (connection refused, host not resolvable, or the 30 s timeout elapsing),
\* POST /api/create-file responds 503.
C11_UnreachableIs503 ==
    [][\A h \in CreateHandlers :
          ((\E code \in NetworkCodes : CreateFailed(h, code)) \/ CreateTimedOut(h)) =>
              /\ lastResponse'.endpoint = "create"
              /\ lastResponse'.status = 503
              /\ lastResponse'.body.error # NULL]_vars

\* The service answered the call of handler h with an error status and a body.
AnsweredWithError(h, status, data) ==
    /\ createReqs[h].pc = "posting"
    /\ pyReceived' = Some(createReqs[h].payload)
    /\ files' = files
    /\ createReqs'[h].pc = "idle"
    /\ CreateCatch(h, Error("ERR_BAD_RESPONSE", Some([status |-> status, data |-> data])))

\* C12. When the persistence service answers a forwarded request with an
\* error status and a body, the gateway's response has exactly that status
\* and exactly that body, for every such status and every action.
C12_ErrorPassThrough ==
    [][\A h \in CreateHandlers :
          (createReqs[h].pc = "posting" /\ pyReceived' # NULL /\ CreateRejected(h)) =>
              /\ lastResponse'.endpoint = "create"
              /\ \E status \in PyErrorStatuses, data \in PyErrorBodies :
                     AnsweredWithError(h, status, data)
              /\ \A status \in PyErrorStatuses, data \in PyErrorBodies :
                     AnsweredWithError(h, status, data) =>
                         /\ lastResponse'.status = status
                         /\ lastResponse'.body = data]_vars

\* The service's 409 to a forwarded reject, passed on as it came.
C12_Witness ==
    /\ lastResponse.endpoint = "create"
    /\ lastResponse.status = 409
    /\ lastResponse.body \in PyErrorBodies
    /\ pyReceived # NULL
    /\ Val(pyReceived).action = Some("reject")

\* C13. A failure of POST /api/create-file that is neither a validation
\* failure, nor a refused connection, nor an error response of the service
\* is answered 500 with the body {error: 'Internal server error'} and no
\* other property; no response body carries the code of the error.
C13_GenericInternalError ==
    /\ [](lastResponse.endpoint = "create" =>
             \A code \in NetworkCodes \cup {"ERR_BAD_RESPONSE"} :
                 lastResponse.body.error # Some(code))
    /\ [][\A h \in CreateHandlers :
             (/\ createReqs[h].pc = "posting"
              /\ createReqs'[h].pc = "idle"
              /\ \/ \E code \in NetworkCodes \ {"ECONNREFUSED"} : CreateFailed(h, code)
                 \/ CreateTimedOut(h)) =>
                 /\ lastResponse'.endpoint = "create"
                 /\ lastResponse'.status = 500
                 /\ lastResponse'.body = [NoBody EXCEPT !.error = Some("Internal server error")]
                 /\ createReqs'[h].pc = "idle"]_vars

\* A 500 sent for a call that timed out after the service had performed the
\* overwrite.
C13_Witness ==
    /\ lastResponse.endpoint = "create"
    /\ lastResponse.status = 500
    /\ lastResponse.body.error = Some("Internal server error")
    /\ pyReceived # NULL
    /\ Val(pyReceived).action = Some("overwrite")
    /\ \E f \in files : f.content = Val(Val(pyReceived).content)

\* C14. Every GET /api/folders and every POST /api/create-file request
\* eventually receives its response, also when the upstream listing call or
\* the persistence call never answers: no request stays pending forever.
C14_EveryRequestAnswered ==
    /\ (folderReqs[1].pc # "idle") ~> (folderReqs[1].pc = "idle")
    /\ (createReqs[1].pc # "idle") ~> (createReqs[1].pc = "idle")

\* C15. No retries: a GET /api/folders request invokes the upstream fetch
\* at most once (it starts the fetch only on arrival, lists every folder
\* once, and a failed fetch ends the request with the fallback), and a POST
\* /api/create-file request makes at most one call to the persistence
\* service: whatever the outcome of the call, the request ends with it.
C15_NoRetries ==
    [][/\ \A h \in FolderHandlers :
            LET r == folderReqs[h]
                q == folderReqs'[h]
            IN  /\ q.pc = "root" => r.pc \in {"idle", "root"}
                /\ (r.pc = "root" /\ FetchRootFail(h)) =>
                       /\ q.pc = "idle"
                       /\ lastResponse'.endpoint = "folders"
                       /\ lastResponse'.via = "fallback"
                /\ (r.pc = "root" /\ q.pc # "root") =>
                       \/ q.pc = "sub" /\ q.idx = 1 /\ q.folderTree = EmptyTree
                       \/ q.pc = "idle" /\ lastResponse'.endpoint = "folders"
                /\ (r.pc = "sub" /\ (q.pc # "sub" \/ q.idx # r.idx)) =>
                       \/ q.pc = "sub" /\ q.idx = r.idx + 1 /\ q.rootItems = r.rootItems
                       \/ q.pc = "idle" /\ lastResponse'.endpoint = "folders"
       /\ \A h \in CreateHandlers :
            (createReqs[h].pc = "posting" /\ createReqs'[h] # createReqs[h]) =>
                /\ createReqs'[h].pc = "idle"
                /\ lastResponse'.endpoint = "create"
                /\ lastResponse'.status # 0
       /\ pyReceived' # NULL =>
            \E h \in CreateHandlers :
                /\ createReqs[h].pc = "posting"
                /\ createReqs'[h].pc = "idle"
                /\ Val(pyReceived') = createReqs[h].payload]_vars

\* The fallback has just ended a request whose fetch failed after the clock
\* had advanced; no handler is fetching again.
C15_Witness ==
    /\ lastResponse.via = "fallback"
    /\ lastResponse.waited
    /\ \A h \in FolderHandlers : folderReqs[h].pc = "idle"
    /\ \A h \in CreateHandlers : createReqs[h].pc = "idle"

\* C16. GET /health always answers 200, with cacheStatus 'loaded' iff a
\* cache entry exists, fresh or stale, and 'empty' before the first
\* successful upstream fetch, whatever fallback responses were sent.
C16_HealthReportsCache ==
    /\ serving => ENABLED Health
    /\ lastResponse.endpoint = "health" =>
          /\ lastResponse.status = 200
          /\ lastResponse.body.status = Some("ok")
          /\ lastResponse.body.service = Some("node-gateway")
          /\ lastResponse.body.cacheStatus \in {Some("loaded"), Some("empty")}
          /\ lastResponse.body.cacheStatus = Some("loaded") <=> folderCache # NULL
          /\ lastFetchOk = NULL => lastResponse.body.cacheStatus = Some("empty")
          /\ lastFetchOk # NULL => lastResponse.body.cacheStatus = Some("loaded")

\* The health endpoint reports 'loaded' for an entry that is a whole TTL old.
C16_Witness ==
    /\ lastResponse.endpoint = "health"
    /\ lastResponse.body.cacheStatus = Some("loaded")
    /\ cacheTimestamp # NULL
    /\ now - Val(cacheTimestamp) >= 300000

\* The three shapes of a CreationResult.
IsExists(b) == b = [NoBody EXCEPT !.exists = Some(TRUE)]

IsWritten(b) ==
    /\ b.path # NULL
    /\ b = [NoBody EXCEPT !.success = Some(TRUE), !.path = b.path]

IsFailure(b) ==
    /\ b.error # NULL
    /\ b = [NoBody EXCEPT !.success = Some(FALSE), !.error = b.error]

CreationResult(b) == IsExists(b) \/ IsWritten(b) \/ IsFailure(b)

\* A body {error} with no other property.
ErrorOnly(b) ==
    /\ b.error # NULL
    /\ b = [NoBody EXCEPT !.error = b.error]

\* C17, as claimed. Every response body of POST /api/create-file has
\* exactly one of the three CreationResult shapes, {exists: true},
\* {success: true, path} or {success: false, error}, and none carries both
\* exists and success.
C17_OneShapePerResponse ==
    lastResponse.endpoint = "create" =>
        /\ CreationResult(lastResponse.body)
        /\ ~(lastResponse.body.exists # NULL /\ lastResponse.body.success # NULL)

\* C17, amended. A response body of POST /api/create-file is either the
\* body the service sent, which has one of the three CreationResult shapes
\* when the service keeps to them (every 200 body is such a body), or an
\* error body {error} made by the gateway, with status 400, 503 or 500 and
\* neither success nor exists; no response carries both exists and success.
C17_ShapeOrGatewayError ==
    lastResponse.endpoint = "create" =>
        LET b == lastResponse.body IN
        /\ CreationResult(b) \/ ErrorOnly(b)
        /\ ~(CreationResult(b) /\ ErrorOnly(b))
        /\ lastResponse.status = 200 => CreationResult(b)
        /\ lastResponse.status \in {400, 503} => ErrorOnly(b)
        /\ ErrorOnly(b) =>
              /\ lastResponse.status \in {400, 503, 500}
              /\ b.error \in {Some("Missing required fields"), Some("Invalid action"),
                               Some("Python service not available. Is it running on port 5000?"),
                               Some("Internal server error")}
        /\ CreationResult(b) => pyReceived # NULL
        /\ ~(b.exists # NULL /\ b.success # NULL)

\* A 400 whose body is {error} alone: none of the three shapes.
C17_Witness ==
    /\ lastResponse.endpoint = "create"
    /\ lastResponse.status = 400
    /\ lastResponse.body = [NoBody EXCEPT !.error = Some("Missing required fields")]
    /\ ~CreationResult(lastResponse.body)

\* A tree one whole fetch returns: the directories of one root listing, in
\* its order, each with the directories of its listing or, when that
\* listing failed, with the empty list.
CompleteTree(t) ==
    /\ \E listing \in RootListings : Keys(t) = DirChildren(listing)
    /\ \A i \in 1..Len(t) :
          \/ t[i].subs = <<>>
          \/ \E listing \in SubListings : t[i].subs = DirChildren(listing)

\* C18. Concurrent GET /api/folders handlers that start while the cache is
\* absent or stale each run their own fetch; under every interleaving the
\* cache entry is the complete tree of the one successful fetch that
\* completed last, with that fetch's completion time, never a mix of two
\* fetches or a partly built tree, and every handler responds with the
\* tree of its own fetch.
C18_LastWriterWins ==
    /\ [](folderCache # NULL =>
             /\ CompleteTree(Val(folderCache))
             /\ lastFetchOk # NULL
             /\ cacheTimestamp = lastFetchOk)
    /\ [][\A h \in FolderHandlers :
             LET r == folderReqs[h]
                 q == folderReqs'[h]
             IN  (/\ r.pc \in {"root", "sub"}
                  /\ q.pc = "idle"
                  /\ ~(r.pc = "root" /\ FetchRootFail(h)))
                 =>
                 /\ lastResponse'.endpoint = "folders"
                 /\ lastResponse'.body.tree # NULL
                 /\ LET own == Val(lastResponse'.body.tree)
                    IN  /\ CompleteTree(own)
                        /\ Keys(own) = (IF r.pc = "root" THEN <<>> ELSE r.rootItems)
                        /\ r.pc = "sub" =>
                              SubSeq(own, 1, Len(own) - 1) = r.folderTree
                        /\ folderCache' = Some(own)
                        /\ cacheTimestamp' = Some(now)
                 /\ \A g \in FolderHandlers \ {h} : folderReqs'[g] = folderReqs[g]]_vars

\* One handler's fetch has just replaced the entry while another handler,
\* started during the same stale window, is still building a different
\* tree that will replace it in turn.
C18_Witness ==
    /\ lastResponse.via = "upstream"
    /\ folderCache = lastResponse.body.tree
    /\ cacheTimestamp = Some(now)
    /\ \E g \in FolderHandlers :
          /\ folderReqs[g].pc = "sub"
          /\ folderReqs[g].folderTree # EmptyTree
          /\ folderReqs[g].rootItems # Keys(Val(folderCache))

\* C20. Between handlers folderCache and cacheTimestamp are both null or
\* both set; once set they are never null again (the cache goes from empty
\* to loaded at most once and never back), and, the clock never going
\* back, cacheTimestamp never decreases.
C20_CacheLifecycle ==
    /\ []((folderCache = NULL) <=> (cacheTimestamp = NULL))
    /\ [](cacheTimestamp # NULL => Val(cacheTimestamp) <= now)
    /\ [][/\ now' >= now
          /\ folderCache # NULL => folderCache' # NULL
          /\ cacheTimestamp # NULL =>
                /\ cacheTimestamp' # NULL
                /\ Val(cacheTimestamp') >= Val(cacheTimestamp)]_vars

\* An entry that is a whole TTL old is still set, with its timestamp, right
\* after a request whose fetch failed was answered with the fallback.
C20_Witness ==
    /\ folderCache # NULL
    /\ cacheTimestamp = Some(StartTime)
    /\ now = StartTime + CACHE_TTL
    /\ lastResponse.via = "fallback"
    /\ lastResponse.endpoint = "folders"

\* C19. The gateway keeps no state between a check and a later
\* overwrite/version/reject: a handler that ended holds nothing of its
\* request, a well-formed request is forwarded as it is whatever requests
\* came before and whatever is in flight, and a request ends with the
\* service's answer to it. So after a check with content "x" was answered
\* exists and an overwrite with "y" of the same path was forwarded and
\* performed, the overwrite with "x" is forwarded and replaces the "y" file.
C19_NoLockBetweenCalls ==
    /\ [](\A h \in CreateHandlers :
             createReqs[h].pc = "idle" => createReqs[h] = IdleCreateReq)
    /\ [][/\ (lastRequest' # NULL /\ ~Malformed(Val(lastRequest'))) =>
               \E h \in CreateHandlers :
                   /\ createReqs[h].pc = "idle"
                   /\ createReqs'[h].pc = "posting"
                   /\ createReqs'[h].body = Val(lastRequest')
                   /\ \A f \in {"topFolder", "subFolder", "filename", "content", "action"} :
                          createReqs'[h].payload[f] = Val(lastRequest')[f]
                   /\ \A g \in CreateHandlers \ {h} : createReqs'[g] = createReqs[g]
                   /\ files' = files
                   /\ lastResponse' = NoResponse
          /\ \A h \in CreateHandlers :
               (createReqs[h].pc = "posting" /\ createReqs'[h].pc = "idle") =>
                   /\ pyReceived' = Some(createReqs[h].payload)
                   /\ lastResponse'.endpoint = "create"
                   /\ \A g \in CreateHandlers \ {h} : createReqs'[g] = createReqs[g]
          /\ (race = "resent" /\ race' = "lost") =>
                   /\ lastResponse'.status = 200
                   /\ lastResponse'.body.success = Some(TRUE)
                   /\ \E f \in files : f.version = 1 /\ f.content = "y"
                   /\ \E f \in files' : f.version = 1 /\ f.content = "x"
                   /\ ~\E f \in files' : f.version = 1 /\ f.content = "y"]_vars

\* The first caller's overwrite has just replaced the file the second
\* caller wrote after the first caller's check was answered exists.
C19_Witness ==
    /\ race = "lost"
    /\ lastResponse.body.success = Some(TRUE)
    /\ pyReceived # NULL
    /\ Val(pyReceived).action = Some("overwrite")
    /\ Val(pyReceived).content = Some("x")
    /\ \E f \in files : f.version = 1 /\ f.content = "x"

\* The cache entry is absent or stale at time t.
AbsentOrStale(t) ==
    \/ folderCache = NULL
    \/ cacheTimestamp = NULL
    \/ t - Val(cacheTimestamp) >= 300000

\* C21. The fallback tree is never stored in the cache and a failed fetch
\* is not remembered: the cached tree is always one a successful upstream
\* fetch returned, a fallback response leaves the entry as it was, and
\* after it every GET /api/folders request that finds the entry absent or
\* stale calls the upstream again.
C21_FallbackNotCached ==
    /\ [](folderCache # NULL =>
             /\ lastFetchOk # NULL
             /\ CompleteTree(Val(folderCache))
             /\ Val(folderCache) # getFallbackFolders)
    /\ [](lastResponse.via = "fallback" =>
             \A h \in FolderHandlers :
                 (folderReqs[h].pc = "idle" /\ AbsentOrStale(now)) =>
                     /\ ENABLED (FoldersStart(h) /\ folderReqs'[h].pc = "root")
                     /\ ~ENABLED (FoldersStart(h) /\ folderReqs'[h].pc # "root"))
    /\ [][/\ lastResponse'.via = "fallback" =>
                /\ folderCache' = folderCache
                /\ cacheTimestamp' = cacheTimestamp
          /\ \A h \in FolderHandlers :
                (folderReqs[h].pc = "idle" /\ AbsentOrStale(now) /\ FoldersStart(h)) =>
                    /\ folderReqs'[h].pc = "root"
                    /\ lastResponse' = NoResponse]_vars

\* The fallback has just been served with nothing cached, and the next
\* request would call the upstream again.
C21_Witness ==
    /\ lastResponse.via = "fallback"
    /\ folderCache = NULL
    /\ cacheTimestamp = NULL
    /\ \E h \in FolderHandlers :
          ENABLED (FoldersStart(h) /\ folderReqs'[h].pc = "root")

----------------------------------------------------------------------------
(* Properties of the client page *)

\* The requests the modal sends.
Resolutions == {Some("overwrite"), Some("version"), Some("reject")}

\* C22. In the client every submit starts with a create-file request with
\* action=check built from the form, and a request with action overwrite,
\* version or reject is sent only after a check request for the same
\* topFolder, subFolder, filename and content was answered with exists:true,
\* carries that payload with only the action changed, and is sent at most
\* once per such answer. (A submit that fails the form's validation sends
\* no request at all.)
C22_CheckThenResolve ==
    /\ [](ui # NULL =>
             /\ \A c \in DOMAIN ledger.resolved :
                   /\ c.action = Some("check")
                   /\ ledger.resolved[c] <= Count(ledger.answered, c)
             /\ ledger.sent # NULL =>
                   LET origin == Val(ledger.sent).origin
                       payload == Val(ledger.sent).payload
                   IN  /\ origin = "submit" => payload.action = Some("check")
                       /\ origin = "modal" => payload.action \in Resolutions
                       /\ payload.action \in Resolutions =>
                             /\ origin = "modal"
                             /\ Count(ledger.answered, CheckOf(payload)) >= 1)
    /\ [][(ui # NULL /\ handleSubmit) =>
             IF Blank(ui.title) \/ Blank(ui.code)
             THEN ledger'.sent = NULL /\ calls' = calls
             ELSE ledger'.sent = Some([origin |-> "submit", payload |-> CheckPayload])]_vars
    /\ [][(ui # NULL /\ ledger'.sent # NULL /\ Val(ledger'.sent).origin = "modal") =>
             /\ ui.showModal /\ ~ui'.showModal
             /\ CheckOf(Val(ledger'.sent).payload) = Val(ui.modalData)
             /\ Count(ledger.answered, Val(ui.modalData))
                   > Count(ledger.resolved, Val(ui.modalData))]_vars

\* The modal has just sent its request for a check that was answered with
\* exists:true, after the form was edited: the request carries the content
\* of the check, not that of the form.
C22_Witness ==
    /\ ui # NULL
    /\ ledger.sent # NULL
    /\ Val(ledger.sent).origin = "modal"
    /\ Val(ledger.sent).payload.action = Some("overwrite")
    /\ Val(ledger.sent).payload.content # Some(ui.code)
    /\ ui.code # ""
    /\ Count(ledger.answered, CheckOf(Val(ledger.sent).payload)) = 1
    /\ Count(ledger.resolved, CheckOf(Val(ledger.sent).payload)) = 1

====
